---- MODULE Spec2Model ----
(***************************************************************************)
(* Model of otsql (package telemetry, sql.go): the tracing decorators      *)
(* around database/sql/driver objects.  Every facade method is one atomic  *)
(* action; the method's body is an operator that computes, from the        *)
(* receiver, the caller's inputs and the outcome the native driver would   *)
(* give, the ordered list of events of that call (spans started, native    *)
(* calls made, errors recorded, spans ended), the returned error and the   *)
(* facade returned.                                                        *)
(***************************************************************************)
EXTENDS Integers, Sequences, FiniteSets, TLC

\* ---------------------------------------------------------------- bounds
MaxArgs == 2

\* ------------------------------------------------------------ vocabulary
ArgNames == {"", "id"}
\* the value passed at position i: distinct at every position
ArgValue(i) == 100 + i
Queries == {"SELECT 1"}
CallerRoots == {"live", "canceled"}
NativeErrs == {"driver: bad connection"}
EOF == "EOF"
ErrSkip == "driver: skip fast-path; continue as if unimplemented"
ErrNamed == "sql: driver does not support the use of Named Parameters"
ConnCaps == {"ConnBeginTx", "ConnPrepareContext", "Execer", "ExecerContext",
             "Pinger", "Queryer", "QueryerContext"}
StmtCaps == {"StmtExecContext", "StmtQueryContext"}
\* the kinds of native connection the runs are made against: one with only
\* the mandatory driver.Conn methods, one with the legacy optional
\* interfaces, one with every optional interface
ConnProfiles == {{}, {"Execer", "Queryer"}, ConnCaps}
StmtProfiles == {{}, StmtCaps}
TxOpts == {"default", "serializable"}
NumVals == {0, 1}

\* a context.Context: the root it was derived from and the span it carries
NilCtx == [root |-> "nil", span |-> ""]
CallerCtxs == [root : CallerRoots, span : {""}]

\* argument lists of length up to MaxArgs; each argument is passed by
\* position (Name = "") or by name
NamedArgLists ==
    UNION {[1..n -> ArgNames] : n \in 0..MaxArgs}

NamedArgs(names) ==
    [i \in 1..Len(names) |-> [Name |-> names[i], Value |-> ArgValue(i)]]

ValueArgLists == {[i \in 1..n |-> ArgValue(i)] : n \in 0..MaxArgs}

\* ------------------------------------------------------------- contexts
\* ctx.Done() is closed
Done(ctx) == ctx.root \in {"canceled", "expired"}

\* ctx.Err()
CtxErr(ctx) ==
    IF ctx.root = "canceled" THEN "context canceled"
    ELSE IF ctx.root = "expired" THEN "context deadline exceeded"
    ELSE ""

\* tracer.Start(ctx, name): the child context carrying the new span
StartCtx(ctx, name) == [root |-> ctx.root, span |-> name]

\* tracer.Start on a nil context: whether it panics depends on the tracer
StartPanics(nilOK, ctx) == ctx.root = "nil" /\ ~nilOK

\* --------------------------------------------------------------- events
EvStart(name, parentCtx, attrs, query) ==
    [kind |-> "start", name |-> name, ctx |-> parentCtx, attrs |-> attrs,
     query |-> query, named |-> <<>>, args |-> <<>>, opts |-> "", err |-> ""]

EvNative(op, ctx, query, named, args, opts, nerr) ==
    [kind |-> "native", name |-> op, ctx |-> ctx, attrs |-> {},
     query |-> query, named |-> named, args |-> args, opts |-> opts, err |-> nerr]

EvRecord(name, ctx, err) ==
    [kind |-> "record", name |-> name, ctx |-> ctx, attrs |-> {},
     query |-> "", named |-> <<>>, args |-> <<>>, opts |-> "", err |-> err]

EvEnd(name) ==
    [kind |-> "end", name |-> name, ctx |-> NilCtx, attrs |-> {},
     query |-> "", named |-> <<>>, args |-> <<>>, opts |-> "", err |-> ""]

\* Deferred with the span ended only on the success path
Deferred_NoEndOnError(name, ctx, err) ==
    IF err /= "" THEN <<EvRecord(name, ctx, err)>>
    ELSE <<EvEnd(name)>>

\* the deferred closure of every traced method:
\*   if err != nil { span.RecordError(ctx, err) }; span.End()
Deferred(name, ctx, err) ==
    IF err /= "" THEN <<EvRecord(name, ctx, err), EvEnd(name)>>
    ELSE <<EvEnd(name)>>

\* -------------------------------------------------------------- outcomes
NoObj == [kind |-> "none", ctx |-> NilCtx, query |-> "", parent |-> [query |-> "", caps |-> {}]]

Facade(kind, ctx, query, parent) ==
    [kind |-> kind, ctx |-> ctx, query |-> query, parent |-> parent]

NoParent == [query |-> "", caps |-> {}]

Out(events, err, ret, val, path) ==
    [events |-> events, err |-> err, panic |-> FALSE, ret |-> ret, val |-> val, path |-> path]

PanicOut(events, path) ==
    [events |-> events, err |-> "", panic |-> TRUE, ret |-> NoObj, val |-> 0, path |-> path]

\* c.parent.(driver.X): the capability check
HasCap(parent, cap) == cap \in parent.caps

\* namedValueToValue: copy the values in order, reject the first named one
RECURSIVE namedValueToValue_loop(_, _, _)
namedValueToValue_loop(named, n, dargs) ==
    IF n > Len(named) THEN [dargs |-> dargs, err |-> ""]
    ELSE IF Len(named[n].Name) > 0 THEN [dargs |-> <<>>, err |-> ErrNamed]
    ELSE namedValueToValue_loop(named, n + 1, Append(dargs, named[n].Value))

\* namedValueToValue without the check of param.Name
namedValueToValue_IgnoreNames(named) ==
    [dargs |-> [n \in 1..Len(named) |-> named[n].Value], err |-> ""]

namedValueToValue(named) == namedValueToValue_loop(named, 1, <<>>)

\* ------------------------------------------------------- Driver Facade
wrappedDriver_Open(nerr, caps) ==
    LET call == EvNative("Driver.Open", NilCtx, "", <<>>, <<>>, "", nerr)
    IN IF nerr /= "" THEN Out(<<call>>, nerr, NoObj, 0, "direct")
       ELSE Out(<<call>>, "", Facade("conn", NilCtx, "", [query |-> "", caps |-> caps]), 0, "direct")

\* --------------------------------------------------- Connection Facade
wrappedConn_Prepare(c, query, nerr, scaps) ==
    LET call == EvNative("Conn.Prepare", NilCtx, query, <<>>, <<>>, "", nerr)
    IN IF nerr /= "" THEN Out(<<call>>, nerr, NoObj, 0, "direct")
       ELSE Out(<<call>>, "",
                Facade("stmt", NilCtx, query, [query |-> query, caps |-> scaps]), 0, "direct")

wrappedConn_Close(c, nerr) ==
    Out(<<EvNative("Conn.Close", NilCtx, "", <<>>, <<>>, "", nerr)>>, nerr, NoObj, 0, "direct")

wrappedConn_Begin(c, nerr) ==
    LET call == EvNative("Conn.Begin", NilCtx, "", <<>>, <<>>, "", nerr)
    IN IF nerr /= "" THEN Out(<<call>>, nerr, NoObj, 0, "direct")
       ELSE Out(<<call>>, "", Facade("tx", NilCtx, "", NoParent), 0, "direct")

wrappedConn_BeginTx(nilOK, c, ctx0, opts, nerr) ==
    IF StartPanics(nilOK, ctx0) THEN PanicOut(<<>>, "none")
    ELSE
    LET name == "sql-tx-begin"
        ctx == StartCtx(ctx0, name)
        st == EvStart(name, ctx0, {"component"}, "")
    IN IF HasCap(c.parent, "ConnBeginTx")
       THEN LET call == EvNative("Conn.BeginTx", ctx, "", <<>>, <<>>, opts, nerr)
            IN IF nerr /= ""
               THEN Out(<<st, call>> \o Deferred(name, ctx, nerr), nerr, NoObj, 0, "ctxaware")
               ELSE Out(<<st, call>> \o Deferred(name, ctx, ""), "",
                        Facade("tx", ctx, "", NoParent), 0, "ctxaware")
       ELSE LET call == EvNative("Conn.Begin", NilCtx, "", <<>>, <<>>, "", nerr)
            IN IF nerr /= ""
               THEN Out(<<st, call>> \o Deferred(name, ctx, nerr), nerr, NoObj, 0, "fallback")
               ELSE Out(<<st, call>> \o Deferred(name, ctx, ""), "",
                        Facade("tx", ctx, "", NoParent), 0, "fallback")

wrappedConn_PrepareContext(nilOK, c, ctx0, query, nerr, scaps) ==
    IF StartPanics(nilOK, ctx0) THEN PanicOut(<<>>, "none")
    ELSE
    LET name == "sql-prepare"
        ctx == StartCtx(ctx0, name)
        st == EvStart(name, ctx0, {"component", "query"}, query)
    IN IF HasCap(c.parent, "ConnPrepareContext")
       THEN LET call == EvNative("Conn.PrepareContext", ctx, query, <<>>, <<>>, "", nerr)
            IN IF nerr /= ""
               THEN Out(<<st, call>> \o Deferred(name, ctx, nerr), nerr, NoObj, 0, "ctxaware")
               ELSE \* wrappedStmt{tracer: c.tracer, ctx: ctx, parent: stmt}: no query field
                    Out(<<st, call>> \o Deferred(name, ctx, ""), "",
                        Facade("stmt", ctx, "", [query |-> query, caps |-> scaps]), 0, "ctxaware")
       ELSE LET inner == wrappedConn_Prepare(c, query, nerr, scaps)
            IN [inner EXCEPT !.events = <<st>> \o inner.events \o Deferred(name, ctx, inner.err),
                             !.path = "fallback"]

\* Exec without the driver.Execer check
wrappedConn_Exec_NoCapCheck(c, query, args, nerr) ==
    LET call == EvNative("Conn.Exec", NilCtx, query, <<>>, args, "", nerr)
    IN IF nerr /= "" THEN Out(<<call>>, nerr, NoObj, 0, "direct")
       ELSE Out(<<call>>, "", Facade("result", NilCtx, "", NoParent), 0, "direct")

wrappedConn_Exec(c, query, args, nerr) ==
    IF HasCap(c.parent, "Execer")
    THEN LET call == EvNative("Conn.Exec", NilCtx, query, <<>>, args, "", nerr)
         IN IF nerr /= "" THEN Out(<<call>>, nerr, NoObj, 0, "direct")
            ELSE Out(<<call>>, "", Facade("result", NilCtx, "", NoParent), 0, "direct")
    ELSE Out(<<>>, ErrSkip, NoObj, 0, "direct")

wrappedConn_ExecContext(nilOK, c, ctx0, query, named, nerr) ==
    IF StartPanics(nilOK, ctx0) THEN PanicOut(<<>>, "none")
    ELSE
    LET name == "sql-conn-exec"
        ctx == StartCtx(ctx0, name)
        st == EvStart(name, ctx0, {"component", "query", "args"}, query)
    IN IF HasCap(c.parent, "ExecerContext")
       THEN LET call == EvNative("Conn.ExecContext", ctx, query, named, <<>>, "", nerr)
            IN IF nerr /= ""
               THEN Out(<<st, call>> \o Deferred(name, ctx, nerr), nerr, NoObj, 0, "ctxaware")
               ELSE Out(<<st, call>> \o Deferred(name, ctx, ""), "",
                        Facade("result", ctx, "", NoParent), 0, "ctxaware")
       ELSE LET conv == namedValueToValue(named)
            IN IF conv.err /= ""
               THEN Out(<<st>> \o Deferred(name, ctx, conv.err), conv.err, NoObj, 0, "fallback")
               ELSE IF ctx.root = "nil"
               THEN PanicOut(<<st>> \o Deferred(name, ctx, ""), "fallback")
               ELSE IF Done(ctx)
               THEN Out(<<st>> \o Deferred(name, ctx, CtxErr(ctx)), CtxErr(ctx), NoObj, 0, "fallback")
               ELSE LET inner == wrappedConn_Exec(c, query, conv.dargs, nerr)
                    IN [inner EXCEPT
                          !.events = <<st>> \o inner.events \o Deferred(name, ctx, inner.err),
                          !.path = "fallback"]

\* Ping with the span started before the driver.Pinger check
wrappedConn_Ping_SpanFirst(nilOK, c, ctx0, nerr) ==
    IF StartPanics(nilOK, ctx0) THEN PanicOut(<<>>, "none")
    ELSE LET name == "sql-ping"
             ctx == StartCtx(ctx0, name)
             st == EvStart(name, ctx0, {"component"}, "")
             call == EvNative("Conn.Ping", ctx, "", <<>>, <<>>, "", nerr)
         IN IF HasCap(c.parent, "Pinger")
            THEN Out(<<st, call>> \o Deferred(name, ctx, nerr), nerr, NoObj, 0, "ctxaware")
            ELSE Out(<<st>> \o Deferred(name, ctx, ""), "", NoObj, 0, "absent")

wrappedConn_Ping(nilOK, c, ctx0, nerr) ==
    IF HasCap(c.parent, "Pinger")
    THEN IF StartPanics(nilOK, ctx0) THEN PanicOut(<<>>, "none")
         ELSE LET name == "sql-ping"
                  ctx == StartCtx(ctx0, name)
                  st == EvStart(name, ctx0, {"component"}, "")
                  call == EvNative("Conn.Ping", ctx, "", <<>>, <<>>, "", nerr)
              IN Out(<<st, call>> \o Deferred(name, ctx, nerr), nerr, NoObj, 0, "ctxaware")
    ELSE Out(<<>>, "", NoObj, 0, "absent")

wrappedConn_Query(c, query, args, nerr) ==
    IF HasCap(c.parent, "Queryer")
    THEN LET call == EvNative("Conn.Query", NilCtx, query, <<>>, args, "", nerr)
         IN IF nerr /= "" THEN Out(<<call>>, nerr, NoObj, 0, "direct")
            ELSE Out(<<call>>, "", Facade("rows", NilCtx, "", NoParent), 0, "direct")
    ELSE Out(<<>>, ErrSkip, NoObj, 0, "direct")

wrappedConn_QueryContext(nilOK, c, ctx0, query, named, nerr) ==
    IF StartPanics(nilOK, ctx0) THEN PanicOut(<<>>, "none")
    ELSE
    LET name == "sql-conn-query"
        ctx == StartCtx(ctx0, name)
        st == EvStart(name, ctx0, {"component", "query", "args"}, query)
    IN IF HasCap(c.parent, "QueryerContext")
       THEN LET call == EvNative("Conn.QueryContext", ctx, query, named, <<>>, "", nerr)
            IN IF nerr /= ""
               THEN Out(<<st, call>> \o Deferred(name, ctx, nerr), nerr, NoObj, 0, "ctxaware")
               ELSE Out(<<st, call>> \o Deferred(name, ctx, ""), "",
                        Facade("rows", ctx, "", NoParent), 0, "ctxaware")
       ELSE LET conv == namedValueToValue(named)
            IN IF conv.err /= ""
               THEN Out(<<st>> \o Deferred(name, ctx, conv.err), conv.err, NoObj, 0, "fallback")
               ELSE IF ctx.root = "nil"
               THEN PanicOut(<<st>> \o Deferred(name, ctx, ""), "fallback")
               ELSE IF Done(ctx)
               THEN Out(<<st>> \o Deferred(name, ctx, CtxErr(ctx)), CtxErr(ctx), NoObj, 0, "fallback")
               ELSE LET inner == wrappedConn_Query(c, query, conv.dargs, nerr)
                    IN [inner EXCEPT
                          !.events = <<st>> \o inner.events \o Deferred(name, ctx, inner.err),
                          !.path = "fallback"]

\* -------------------------------------------------- Transaction Facade
wrappedTx_Commit(nilOK, t, nerr) ==
    IF StartPanics(nilOK, t.ctx) THEN PanicOut(<<>>, "none")
    ELSE LET name == "sql-tx-commit"
             ctx == StartCtx(t.ctx, name)
             st == EvStart(name, t.ctx, {"component"}, "")
             call == EvNative("Tx.Commit", NilCtx, "", <<>>, <<>>, "", nerr)
         IN Out(<<st, call>> \o Deferred(name, ctx, nerr), nerr, NoObj, 0, "direct")

wrappedTx_Rollback(nilOK, t, nerr) ==
    IF StartPanics(nilOK, t.ctx) THEN PanicOut(<<>>, "none")
    ELSE LET name == "sql-tx-rollback"
             ctx == StartCtx(t.ctx, name)
             st == EvStart(name, t.ctx, {"component"}, "")
             call == EvNative("Tx.Rollback", NilCtx, "", <<>>, <<>>, "", nerr)
         IN Out(<<st, call>> \o Deferred(name, ctx, nerr), nerr, NoObj, 0, "direct")

\* ---------------------------------------------------- Statement Facade
wrappedStmt_Close(nilOK, s, nerr) ==
    IF StartPanics(nilOK, s.ctx) THEN PanicOut(<<>>, "none")
    ELSE LET name == "sql-stmt-close"
             ctx == StartCtx(s.ctx, name)
             st == EvStart(name, s.ctx, {"component"}, "")
             call == EvNative("Stmt.Close", NilCtx, s.parent.query, <<>>, <<>>, "", nerr)
         IN Out(<<st, call>> \o Deferred(name, ctx, nerr), nerr, NoObj, 0, "direct")

wrappedStmt_NumInput(s, nval) ==
    Out(<<EvNative("Stmt.NumInput", NilCtx, s.parent.query, <<>>, <<>>, "", "")>>,
        "", NoObj, nval, "direct")

wrappedStmt_Exec(nilOK, s, args, nerr) ==
    IF StartPanics(nilOK, s.ctx) THEN PanicOut(<<>>, "none")
    ELSE LET name == "sql-stmt-exec"
             ctx == StartCtx(s.ctx, name)
             st == EvStart(name, s.ctx, {"component", "query", "args"}, s.query)
             call == EvNative("Stmt.Exec", NilCtx, s.parent.query, <<>>, args, "", nerr)
         IN IF nerr /= ""
            THEN Out(<<st, call>> \o Deferred(name, ctx, nerr), nerr, NoObj, 0, "direct")
            ELSE Out(<<st, call>> \o Deferred(name, ctx, ""), "",
                     Facade("result", s.ctx, "", NoParent), 0, "direct")

wrappedStmt_Query(nilOK, s, args, nerr) ==
    IF StartPanics(nilOK, s.ctx) THEN PanicOut(<<>>, "none")
    ELSE LET name == "sql-stmt-query"
             ctx == StartCtx(s.ctx, name)
             st == EvStart(name, s.ctx, {"component", "query", "args"}, s.query)
             call == EvNative("Stmt.Query", NilCtx, s.parent.query, <<>>, args, "", nerr)
         IN IF nerr /= ""
            THEN Out(<<st, call>> \o Deferred(name, ctx, nerr), nerr, NoObj, 0, "direct")
            ELSE Out(<<st, call>> \o Deferred(name, ctx, ""), "",
                     Facade("rows", s.ctx, "", NoParent), 0, "direct")

\* "ctx, span := s.tracer.Start(s.ctx, ...)" assigns the parameter ctx: from
\* that line on the caller's context ctx0 is gone and ctx derives from s.ctx
wrappedStmt_ExecContext(nilOK, s, ctx0, named, nerr) ==
    IF StartPanics(nilOK, s.ctx) THEN PanicOut(<<>>, "none")
    ELSE
    LET name == "sql-stmt-exec"
        ctx == StartCtx(s.ctx, name)
        st == EvStart(name, s.ctx, {"component", "query", "args"}, s.query)
    IN IF HasCap(s.parent, "StmtExecContext")
       THEN LET call == EvNative("Stmt.ExecContext", ctx, s.parent.query, named, <<>>, "", nerr)
            IN IF nerr /= ""
               THEN Out(<<st, call>> \o Deferred(name, ctx, nerr), nerr, NoObj, 0, "ctxaware")
               ELSE Out(<<st, call>> \o Deferred(name, ctx, ""), "",
                        Facade("result", ctx, "", NoParent), 0, "ctxaware")
       ELSE LET conv == namedValueToValue(named)
            IN IF conv.err /= ""
               THEN Out(<<st>> \o Deferred(name, ctx, conv.err), conv.err, NoObj, 0, "fallback")
               ELSE IF ctx.root = "nil"
               THEN PanicOut(<<st>> \o Deferred(name, ctx, ""), "fallback")
               ELSE IF Done(ctx)
               THEN Out(<<st>> \o Deferred(name, ctx, CtxErr(ctx)), CtxErr(ctx), NoObj, 0, "fallback")
               ELSE LET inner == wrappedStmt_Exec(nilOK, s, conv.dargs, nerr)
                    IN [inner EXCEPT
                          !.events = <<st>> \o inner.events \o Deferred(name, ctx, inner.err),
                          !.path = "fallback"]

wrappedStmt_QueryContext(nilOK, s, ctx0, named, nerr) ==
    IF StartPanics(nilOK, s.ctx) THEN PanicOut(<<>>, "none")
    ELSE
    LET name == "sql-stmt-query"
        ctx == StartCtx(s.ctx, name)
        st == EvStart(name, s.ctx, {"component", "query", "args"}, s.query)
    IN IF HasCap(s.parent, "StmtQueryContext")
       THEN LET call == EvNative("Stmt.QueryContext", ctx, s.parent.query, named, <<>>, "", nerr)
            IN IF nerr /= ""
               THEN Out(<<st, call>> \o Deferred(name, ctx, nerr), nerr, NoObj, 0, "ctxaware")
               ELSE Out(<<st, call>> \o Deferred(name, ctx, ""), "",
                        Facade("rows", ctx, "", NoParent), 0, "ctxaware")
       ELSE LET conv == namedValueToValue(named)
            IN IF conv.err /= ""
               THEN Out(<<st>> \o Deferred(name, ctx, conv.err), conv.err, NoObj, 0, "fallback")
               ELSE IF ctx.root = "nil"
               THEN PanicOut(<<st>> \o Deferred(name, ctx, ""), "fallback")
               ELSE IF Done(ctx)
               THEN Out(<<st>> \o Deferred(name, ctx, CtxErr(ctx)), CtxErr(ctx), NoObj, 0, "fallback")
               ELSE LET inner == wrappedStmt_Query(nilOK, s, conv.dargs, nerr)
                    IN [inner EXCEPT
                          !.events = <<st>> \o inner.events \o Deferred(name, ctx, inner.err),
                          !.path = "fallback"]

\* ------------------------------------------------------- Result Facade
wrappedResult_LastInsertId(nilOK, r, nval, nerr) ==
    IF StartPanics(nilOK, r.ctx) THEN PanicOut(<<>>, "none")
    ELSE LET name == "sql-res-lastInsertId"
             ctx == StartCtx(r.ctx, name)
             st == EvStart(name, r.ctx, {"component"}, "")
             call == EvNative("Result.LastInsertId", NilCtx, "", <<>>, <<>>, "", nerr)
         IN Out(<<st, call>> \o Deferred(name, ctx, nerr), nerr, NoObj, nval, "direct")

wrappedResult_RowsAffected(nilOK, r, nval, nerr) ==
    IF StartPanics(nilOK, r.ctx) THEN PanicOut(<<>>, "none")
    ELSE LET name == "sql-res-rowsAffected"
             ctx == StartCtx(r.ctx, name)
             st == EvStart(name, r.ctx, {"component"}, "")
             call == EvNative("Result.RowsAffected", NilCtx, "", <<>>, <<>>, "", nerr)
         IN Out(<<st, call>> \o Deferred(name, ctx, nerr), nerr, NoObj, nval, "direct")

\* --------------------------------------------------- Row-Cursor Facade
wrappedRows_Columns(r, nval) ==
    Out(<<EvNative("Rows.Columns", NilCtx, "", <<>>, <<>>, "", "")>>, "", NoObj, nval, "direct")

wrappedRows_Close(r, nerr) ==
    Out(<<EvNative("Rows.Close", NilCtx, "", <<>>, <<>>, "", nerr)>>, nerr, NoObj, 0, "direct")

\* Next with the end-of-rows signal treated as success
wrappedRows_Next_EOFSwallowed(nilOK, r, nerr) ==
    IF StartPanics(nilOK, r.ctx) THEN PanicOut(<<>>, "none")
    ELSE LET name == "sql-rows-next"
             ctx == StartCtx(r.ctx, name)
             st == EvStart(name, r.ctx, {"component"}, "")
             call == EvNative("Rows.Next", NilCtx, "", <<>>, <<>>, "", nerr)
             err == IF nerr = EOF THEN "" ELSE nerr
         IN Out(<<st, call>> \o Deferred(name, ctx, err), err, NoObj, 0, "direct")

wrappedRows_Next(nilOK, r, nerr) ==
    IF StartPanics(nilOK, r.ctx) THEN PanicOut(<<>>, "none")
    ELSE LET name == "sql-rows-next"
             ctx == StartCtx(r.ctx, name)
             st == EvStart(name, r.ctx, {"component"}, "")
             call == EvNative("Rows.Next", NilCtx, "", <<>>, <<>>, "", nerr)
         IN Out(<<st, call>> \o Deferred(name, ctx, nerr), nerr, NoObj, 0, "direct")

\* ---------------------------------------------------------------- state
VARIABLES
    tracerNilOK,  \* whether the tracer's Start accepts a nil context
    conn,         \* the Connection Facade the application holds, or NoObj
    stmt,         \* the Statement Facade the application holds, or NoObj
    obj,          \* the Transaction / Result / Row-Cursor Facade it holds, or NoObj
    last,         \* the facade call that completed last
    openSpans     \* spans started and not yet ended, over the whole run

vars == <<tracerNilOK, conn, stmt, obj, last, openSpans>>

RECURSIVE CountKind(_, _)
CountKind(events, kind) ==
    IF events = <<>> THEN 0
    ELSE (IF Head(events).kind = kind THEN 1 ELSE 0) + CountKind(Tail(events), kind)

Call(op, recv, ctx, query, named, args, opts, out) ==
    [op |-> op, recv |-> recv, ctx |-> ctx, query |-> query, named |-> named,
     args |-> args, opts |-> opts, events |-> out.events, err |-> out.err,
     panic |-> out.panic, ret |-> out.ret, val |-> out.val, path |-> out.path]

Completes(call) ==
    /\ last' = call
    /\ openSpans' = openSpans + CountKind(call.events, "start") - CountKind(call.events, "end")

NoOut == Out(<<>>, "", NoObj, 0, "direct")

\* the application works on one thing at a time: a statement it prepared
\* (and the result or cursor of its last execution), or a transaction,
\* result or cursor it got from the connection; a facade returned by the
\* connection takes the place of what was held before
Holds(ret) ==
    IF ret.kind = "stmt" THEN stmt' = ret /\ obj' = NoObj
    ELSE IF ret.kind = "none" THEN UNCHANGED <<stmt, obj>>
    ELSE stmt' = NoObj /\ obj' = ret

Init ==
    /\ tracerNilOK \in BOOLEAN
    /\ conn = NoObj
    /\ stmt = NoObj
    /\ obj = NoObj
    /\ last = Call("init", NoObj, NilCtx, "", <<>>, <<>>, "", NoOut)
    /\ openSpans = 0

MaybeErr == NativeErrs \cup {""}

Open ==
    /\ conn.kind = "none"
    /\ \E nerr \in MaybeErr, caps \in ConnProfiles :
         LET out == wrappedDriver_Open(nerr, caps)
         IN /\ Completes(Call("Driver.Open", NoObj, NilCtx, "", <<>>, <<>>, "", out))
            /\ conn' = out.ret
    /\ UNCHANGED <<tracerNilOK, stmt, obj>>

ConnClose ==
    /\ conn.kind = "conn"
    /\ \E nerr \in MaybeErr :
         Completes(Call("Conn.Close", conn, NilCtx, "", <<>>, <<>>, "", wrappedConn_Close(conn, nerr)))
    /\ conn' = NoObj /\ stmt' = NoObj /\ obj' = NoObj
    /\ UNCHANGED tracerNilOK

Prepare ==
    /\ conn.kind = "conn"
    /\ \E q \in Queries, nerr \in MaybeErr, scaps \in StmtProfiles :
         LET out == wrappedConn_Prepare(conn, q, nerr, scaps)
         IN /\ Completes(Call("Conn.Prepare", conn, NilCtx, q, <<>>, <<>>, "", out))
            /\ Holds(out.ret)
    /\ UNCHANGED <<tracerNilOK, conn>>

PrepareContext ==
    /\ conn.kind = "conn"
    /\ \E ctx \in CallerCtxs, q \in Queries, nerr \in MaybeErr, scaps \in StmtProfiles :
         LET out == wrappedConn_PrepareContext(tracerNilOK, conn, ctx, q, nerr, scaps)
         IN /\ Completes(Call("Conn.PrepareContext", conn, ctx, q, <<>>, <<>>, "", out))
            /\ Holds(out.ret)
    /\ UNCHANGED <<tracerNilOK, conn>>

Begin ==
    /\ conn.kind = "conn"
    /\ \E nerr \in MaybeErr :
         LET out == wrappedConn_Begin(conn, nerr)
         IN /\ Completes(Call("Conn.Begin", conn, NilCtx, "", <<>>, <<>>, "", out))
            /\ Holds(out.ret)
    /\ UNCHANGED <<tracerNilOK, conn>>

BeginTx ==
    /\ conn.kind = "conn"
    /\ \E ctx \in CallerCtxs, opts \in TxOpts, nerr \in MaybeErr :
         LET out == wrappedConn_BeginTx(tracerNilOK, conn, ctx, opts, nerr)
         IN /\ Completes(Call("Conn.BeginTx", conn, ctx, "", <<>>, <<>>, opts, out))
            /\ Holds(out.ret)
    /\ UNCHANGED <<tracerNilOK, conn>>

ConnExec ==
    /\ conn.kind = "conn"
    /\ \E q \in Queries, args \in ValueArgLists, nerr \in MaybeErr :
         LET out == wrappedConn_Exec(conn, q, args, nerr)
         IN /\ Completes(Call("Conn.Exec", conn, NilCtx, q, <<>>, args, "", out))
            /\ Holds(out.ret)
    /\ UNCHANGED <<tracerNilOK, conn>>

ConnExecContext ==
    /\ conn.kind = "conn"
    /\ \E ctx \in CallerCtxs, q \in Queries, names \in NamedArgLists, nerr \in MaybeErr :
         LET named == NamedArgs(names)
             out == wrappedConn_ExecContext(tracerNilOK, conn, ctx, q, named, nerr)
         IN /\ Completes(Call("Conn.ExecContext", conn, ctx, q, named, <<>>, "", out))
            /\ Holds(out.ret)
    /\ UNCHANGED <<tracerNilOK, conn>>

Ping ==
    /\ conn.kind = "conn"
    /\ \E ctx \in CallerCtxs, nerr \in MaybeErr :
         Completes(Call("Conn.Ping", conn, ctx, "", <<>>, <<>>, "",
                        wrappedConn_Ping(tracerNilOK, conn, ctx, nerr)))
    /\ UNCHANGED <<tracerNilOK, conn, stmt, obj>>

ConnQuery ==
    /\ conn.kind = "conn"
    /\ \E q \in Queries, args \in ValueArgLists, nerr \in MaybeErr :
         LET out == wrappedConn_Query(conn, q, args, nerr)
         IN /\ Completes(Call("Conn.Query", conn, NilCtx, q, <<>>, args, "", out))
            /\ Holds(out.ret)
    /\ UNCHANGED <<tracerNilOK, conn>>

ConnQueryContext ==
    /\ conn.kind = "conn"
    /\ \E ctx \in CallerCtxs, q \in Queries, names \in NamedArgLists, nerr \in MaybeErr :
         LET named == NamedArgs(names)
             out == wrappedConn_QueryContext(tracerNilOK, conn, ctx, q, named, nerr)
         IN /\ Completes(Call("Conn.QueryContext", conn, ctx, q, named, <<>>, "", out))
            /\ Holds(out.ret)
    /\ UNCHANGED <<tracerNilOK, conn>>

Commit ==
    /\ obj.kind = "tx"
    /\ \E nerr \in MaybeErr :
         Completes(Call("Tx.Commit", obj, NilCtx, "", <<>>, <<>>, "",
                        wrappedTx_Commit(tracerNilOK, obj, nerr)))
    /\ obj' = NoObj
    /\ UNCHANGED <<tracerNilOK, conn, stmt>>

Rollback ==
    /\ obj.kind = "tx"
    /\ \E nerr \in MaybeErr :
         Completes(Call("Tx.Rollback", obj, NilCtx, "", <<>>, <<>>, "",
                        wrappedTx_Rollback(tracerNilOK, obj, nerr)))
    /\ obj' = NoObj
    /\ UNCHANGED <<tracerNilOK, conn, stmt>>

StmtClose ==
    /\ stmt.kind = "stmt"
    /\ \E nerr \in MaybeErr :
         Completes(Call("Stmt.Close", stmt, NilCtx, "", <<>>, <<>>, "",
                        wrappedStmt_Close(tracerNilOK, stmt, nerr)))
    /\ stmt' = NoObj
    /\ UNCHANGED <<tracerNilOK, conn, obj>>

NumInput ==
    /\ stmt.kind = "stmt"
    /\ \E nval \in NumVals :
         Completes(Call("Stmt.NumInput", stmt, NilCtx, "", <<>>, <<>>, "",
                        wrappedStmt_NumInput(stmt, nval)))
    /\ UNCHANGED <<tracerNilOK, conn, stmt, obj>>

StmtExec ==
    /\ stmt.kind = "stmt"
    /\ \E args \in ValueArgLists, nerr \in MaybeErr :
         LET out == wrappedStmt_Exec(tracerNilOK, stmt, args, nerr)
         IN /\ Completes(Call("Stmt.Exec", stmt, NilCtx, "", <<>>, args, "", out))
            /\ obj' = IF out.ret.kind = "result" THEN out.ret ELSE obj
    /\ UNCHANGED <<tracerNilOK, conn, stmt>>

StmtQuery ==
    /\ stmt.kind = "stmt"
    /\ \E args \in ValueArgLists, nerr \in MaybeErr :
         LET out == wrappedStmt_Query(tracerNilOK, stmt, args, nerr)
         IN /\ Completes(Call("Stmt.Query", stmt, NilCtx, "", <<>>, args, "", out))
            /\ obj' = IF out.ret.kind = "rows" THEN out.ret ELSE obj
    /\ UNCHANGED <<tracerNilOK, conn, stmt>>

StmtExecContext ==
    /\ stmt.kind = "stmt"
    /\ \E ctx \in CallerCtxs, names \in NamedArgLists, nerr \in MaybeErr :
         LET named == NamedArgs(names)
             out == wrappedStmt_ExecContext(tracerNilOK, stmt, ctx, named, nerr)
         IN /\ Completes(Call("Stmt.ExecContext", stmt, ctx, "", named, <<>>, "", out))
            /\ obj' = IF out.ret.kind = "result" THEN out.ret ELSE obj
    /\ UNCHANGED <<tracerNilOK, conn, stmt>>

StmtQueryContext ==
    /\ stmt.kind = "stmt"
    /\ \E ctx \in CallerCtxs, names \in NamedArgLists, nerr \in MaybeErr :
         LET named == NamedArgs(names)
             out == wrappedStmt_QueryContext(tracerNilOK, stmt, ctx, named, nerr)
         IN /\ Completes(Call("Stmt.QueryContext", stmt, ctx, "", named, <<>>, "", out))
            /\ obj' = IF out.ret.kind = "rows" THEN out.ret ELSE obj
    /\ UNCHANGED <<tracerNilOK, conn, stmt>>

LastInsertId ==
    /\ obj.kind = "result"
    /\ \E nval \in NumVals, nerr \in MaybeErr :
         Completes(Call("Result.LastInsertId", obj, NilCtx, "", <<>>, <<>>, "",
                        wrappedResult_LastInsertId(tracerNilOK, obj, nval, nerr)))
    /\ UNCHANGED <<tracerNilOK, conn, stmt, obj>>

RowsAffected ==
    /\ obj.kind = "result"
    /\ \E nval \in NumVals, nerr \in MaybeErr :
         Completes(Call("Result.RowsAffected", obj, NilCtx, "", <<>>, <<>>, "",
                        wrappedResult_RowsAffected(tracerNilOK, obj, nval, nerr)))
    /\ UNCHANGED <<tracerNilOK, conn, stmt, obj>>

Columns ==
    /\ obj.kind = "rows"
    /\ \E nval \in NumVals :
         Completes(Call("Rows.Columns", obj, NilCtx, "", <<>>, <<>>, "",
                        wrappedRows_Columns(obj, nval)))
    /\ UNCHANGED <<tracerNilOK, conn, stmt, obj>>

RowsClose ==
    /\ obj.kind = "rows"
    /\ \E nerr \in MaybeErr :
         Completes(Call("Rows.Close", obj, NilCtx, "", <<>>, <<>>, "",
                        wrappedRows_Close(obj, nerr)))
    /\ obj' = NoObj
    /\ UNCHANGED <<tracerNilOK, conn, stmt>>

RowsNext ==
    /\ obj.kind = "rows"
    /\ \E nerr \in MaybeErr \cup {EOF} :
         Completes(Call("Rows.Next", obj, NilCtx, "", <<>>, <<>>, "",
                        wrappedRows_Next(tracerNilOK, obj, nerr)))
    /\ UNCHANGED <<tracerNilOK, conn, stmt, obj>>

Next ==
    \/ Open \/ ConnClose \/ Prepare \/ PrepareContext \/ Begin \/ BeginTx
    \/ ConnExec \/ ConnExecContext \/ Ping \/ ConnQuery \/ ConnQueryContext
    \/ Commit \/ Rollback
    \/ StmtClose \/ NumInput \/ StmtExec \/ StmtQuery \/ StmtExecContext \/ StmtQueryContext
    \/ LastInsertId \/ RowsAffected
    \/ Columns \/ RowsClose \/ RowsNext

Spec == Init /\ [][Next]_vars

\* ------------------------------------------------- vocabulary of claims
Natives(events) == SelectSeq(events, LAMBDA e : e.kind = "native")

\* the operations with a non-context-aware fallback that converts arguments
FallbackOps == {"Conn.ExecContext", "Conn.QueryContext", "Stmt.ExecContext", "Stmt.QueryContext"}

\* the context-aware operations
CtxOps == FallbackOps \cup {"Conn.PrepareContext", "Conn.BeginTx"}

\* the operations that have a span name
TracedOps == CtxOps \cup {"Conn.Ping", "Tx.Commit", "Tx.Rollback", "Stmt.Close", "Stmt.Exec",
                          "Stmt.Query", "Result.LastInsertId", "Result.RowsAffected", "Rows.Next"}

\* the optional interface a context-aware operation looks for
CtxCap(op) ==
    CASE op = "Conn.ExecContext" -> "ExecerContext"
      [] op = "Conn.QueryContext" -> "QueryerContext"
      [] op = "Conn.PrepareContext" -> "ConnPrepareContext"
      [] op = "Conn.BeginTx" -> "ConnBeginTx"
      [] op = "Stmt.ExecContext" -> "StmtExecContext"
      [] op = "Stmt.QueryContext" -> "StmtQueryContext"
      [] op = "Conn.Ping" -> "Pinger"
      [] OTHER -> ""

\* the legacy native operation it falls back to
LegacyOp(op) ==
    CASE op = "Conn.ExecContext" -> "Conn.Exec"
      [] op = "Conn.QueryContext" -> "Conn.Query"
      [] op = "Conn.PrepareContext" -> "Conn.Prepare"
      [] op = "Conn.BeginTx" -> "Conn.Begin"
      [] op = "Stmt.ExecContext" -> "Stmt.Exec"
      [] op = "Stmt.QueryContext" -> "Stmt.Query"
      [] OTHER -> ""

\* whether the native object offers the legacy operation at all
LegacyOffered(call) ==
    CASE call.op = "Conn.ExecContext" -> HasCap(call.recv.parent, "Execer")
      [] call.op = "Conn.QueryContext" -> HasCap(call.recv.parent, "Queryer")
      [] OTHER -> TRUE

HasNamed(named) == \E i \in 1..Len(named) : named[i].Name /= ""

\* spans are ended innermost first, each one started is ended
RECURSIVE WellNested(_, _)
WellNested(events, open) ==
    IF events = <<>> THEN open = <<>>
    ELSE LET e == Head(events)
         IN IF e.kind = "start" THEN WellNested(Tail(events), <<e.name>> \o open)
            ELSE IF e.kind = "end"
            THEN open /= <<>> /\ Head(open) = e.name /\ WellNested(Tail(events), Tail(open))
            ELSE WellNested(Tail(events), open)

\* ----------------------------------------------------------------- claims

\* C1: a fallback call (ExecContext / QueryContext of a connection or a
\* statement whose native object lacks the context-aware interface) made with
\* a context that is already cancelled or expired returns that context's
\* error and invokes no native operation.  Stated for the calls that return
\* and for positional argument lists, where no argument error can come first.
C1_CancelledFallbackFails ==
    (/\ last.op \in FallbackOps
     /\ ~HasCap(last.recv.parent, CtxCap(last.op))
     /\ Done(last.ctx)
     /\ ~HasNamed(last.named)
     /\ ~last.panic)
    => (/\ last.err = CtxErr(last.ctx)
        /\ Natives(last.events) = <<>>)

\* C2: every sql-stmt-exec / sql-stmt-query span carries, as its query
\* attribute, the query text the statement was prepared with.
C2_QueryEchoedOnSpans ==
    last.recv.kind = "stmt" =>
        \A i \in 1..Len(last.events) :
            (last.events[i].kind = "start"
             /\ last.events[i].name \in {"sql-stmt-exec", "sql-stmt-query"})
            => last.events[i].query = last.recv.parent.query

\* C3: a successful call of a traced operation starts exactly one span and
\* ends exactly one (Ping on a connection without driver.Pinger, which has
\* no span by design, left aside).
C3_OneSpanPerSuccessfulCall ==
    (/\ last.op \in TracedOps
     /\ ~last.panic
     /\ last.err = ""
     /\ ~(last.op = "Conn.Ping" /\ ~HasCap(last.recv.parent, "Pinger")))
    => (/\ CountKind(last.events, "start") = 1
        /\ CountKind(last.events, "end") = 1)

\* C4: no span is left open: after every completed call the spans started
\* so far are all ended, and within the call each span started is ended,
\* innermost first, before the call returns.
C4_NoSpanLeftOpen ==
    /\ openSpans = 0
    /\ WellNested(last.events, <<>>)
    /\ CountKind(last.events, "start") = CountKind(last.events, "end")

C4_Witness ==
    /\ last.op = "Stmt.QueryContext"
    /\ last.path = "fallback"
    /\ last.err \in NativeErrs
    /\ CountKind(last.events, "start") = 2

\* C5: the error recorded on a span is the error the call returns; every
\* span of a failing call has that error recorded before it ends; an error
\* of the native object is what the caller gets, unchanged (the end-of-rows
\* signal of Next included); a successful call records no error.
C5_ErrorRecordedAndReturned ==
    LET evs == last.events
    IN /\ \A i \in 1..Len(evs) :
             evs[i].kind = "record" => (last.err /= "" /\ evs[i].err = last.err)
       /\ (last.err /= "" /\ ~last.panic) =>
             \A i \in 1..Len(evs) :
                 evs[i].kind = "end" =>
                     (/\ i > 1
                      /\ evs[i - 1].kind = "record"
                      /\ evs[i - 1].name = evs[i].name
                      /\ evs[i - 1].err = last.err)
       /\ \A i \in 1..Len(evs) :
             (evs[i].kind = "native" /\ evs[i].err /= "")
             => (~last.panic /\ last.err = evs[i].err)

C5_Witness ==
    /\ last.op = "Rows.Next"
    /\ last.err = EOF
    /\ \E i \in 1..Len(last.events) :
           last.events[i].kind = "record" /\ last.events[i].name = "sql-rows-next"

\* C6: on the fallback path an argument list with a named argument makes the
\* call fail with the named-parameter error and no native operation is
\* invoked; a list without one reaches the native legacy operation as the
\* same values, in the same order and number.
C6_NamedRejectedPositionalKept ==
    (last.op \in FallbackOps /\ last.path = "fallback") =>
        IF HasNamed(last.named)
        THEN /\ ~last.panic
             /\ last.err = ErrNamed
             /\ Natives(last.events) = <<>>
        ELSE \A i \in 1..Len(last.events) :
                 last.events[i].kind = "native" =>
                     (/\ last.events[i].name = LegacyOp(last.op)
                      /\ Len(last.events[i].args) = Len(last.named)
                      /\ \A k \in 1..Len(last.named) :
                             last.events[i].args[k] = last.named[k].Value)

C6_Witness ==
    /\ last.op = "Stmt.ExecContext"
    /\ last.path = "fallback"
    /\ Len(last.named) = MaxArgs
    /\ last.named[MaxArgs].Name /= ""
    /\ last.err = ErrNamed

\* C7: Ping on a connection without driver.Pinger returns nil, starts no
\* span and makes no native call; with it, one sql-ping span is started and
\* ended, the native Ping is called once, and its error is recorded on the
\* span and returned.
C7_Ping ==
    last.op = "Conn.Ping" =>
        IF ~HasCap(last.recv.parent, "Pinger")
        THEN last.err = "" /\ ~last.panic /\ last.events = <<>>
        ELSE LET nat == Natives(last.events)
             IN /\ ~last.panic
                /\ CountKind(last.events, "start") = 1
                /\ CountKind(last.events, "end") = 1
                /\ last.events[1].kind = "start" /\ last.events[1].name = "sql-ping"
                /\ last.events[Len(last.events)].kind = "end"
                /\ Len(nat) = 1 /\ nat[1].name = "Conn.Ping"
                /\ nat[1].ctx.root = last.ctx.root
                /\ last.err = nat[1].err
                /\ last.err /= "" =>
                       \E i \in 1..Len(last.events) :
                           last.events[i].kind = "record" /\ last.events[i].err = last.err

C7_Witness ==
    /\ last.op = "Conn.Ping"
    /\ HasCap(last.recv.parent, "Pinger")
    /\ last.err \in NativeErrs

\* whether the native object offers the very operation the facade was asked
DirectlyOffered(call) ==
    CASE call.op \in CtxOps \cup {"Conn.Ping"} -> HasCap(call.recv.parent, CtxCap(call.op))
      [] call.op = "Conn.Exec" -> HasCap(call.recv.parent, "Execer")
      [] call.op = "Conn.Query" -> HasCap(call.recv.parent, "Queryer")
      [] call.op = "init" -> FALSE
      [] OTHER -> TRUE

\* C8: a call through the facade reaches the native driver as the same one
\* call with the same arguments (context, query, argument list, options) as
\* the call made directly, and hands back the native error.  Stated for the
\* calls that return.
C8_SameNativeCalls ==
    (DirectlyOffered(last) /\ ~last.panic) =>
        LET nat == Natives(last.events)
        IN /\ Len(nat) = 1
           /\ nat[1].name = last.op
           /\ nat[1].ctx.root = last.ctx.root
           /\ nat[1].query = (IF last.recv.kind = "stmt" THEN last.recv.parent.query ELSE last.query)
           /\ nat[1].named = last.named
           /\ nat[1].args = last.args
           /\ nat[1].opts = last.opts
           /\ last.err = nat[1].err

\* C9: every facade that starts spans holds a context that is defined (never
\* nil), and when the call that created it supplied a context, that context.
C9_FacadeContextDefined ==
    /\ stmt.kind = "stmt" => stmt.ctx.root /= "nil"
    /\ obj.kind /= "none" => obj.ctx.root /= "nil"
    /\ (last.ret.kind \in {"stmt", "tx", "result", "rows"} /\ last.ctx.root /= "nil")
       => last.ret.ctx.root = last.ctx.root

\* C10 as stated: a context-aware operation makes one native call, the
\* context-aware one when the native object offers it, the legacy one
\* otherwise, and with neither returns driver.ErrSkip without a native call.
C10_DispatchAsStated ==
    last.op \in CtxOps =>
        LET nat == Natives(last.events)
        IN /\ Len(nat) <= 1
           /\ IF HasCap(last.recv.parent, CtxCap(last.op))
              THEN Len(nat) = 1 /\ nat[1].name = last.op
              ELSE IF LegacyOffered(last)
              THEN Len(nat) = 1 /\ nat[1].name = LegacyOp(last.op)
              ELSE nat = <<>> /\ last.err = ErrSkip

\* the context whose cancellation a fallback call checks
CheckedCtx(call) == IF call.recv.kind = "stmt" THEN call.recv.ctx ELSE call.ctx

\* C10 amended: at most one native call; a native call made is the
\* context-aware one when the native object offers it and the legacy one
\* otherwise; the context-aware one is made whenever the span was started;
\* the legacy one of PrepareContext and BeginTx is always made, that of
\* ExecContext / QueryContext exactly when the argument list has no named
\* argument, the context checked is not done and the native object offers
\* it; without either interface there is no native call and the error is
\* the named-parameter error, else the cancellation error, else ErrSkip.
C10_Dispatch ==
    last.op \in CtxOps =>
        LET nat == Natives(last.events)
            rich == HasCap(last.recv.parent, CtxCap(last.op))
        IN /\ Len(nat) <= 1
           /\ \A i \in 1..Len(nat) :
                  nat[i].name = (IF rich THEN last.op ELSE LegacyOp(last.op))
           /\ (rich /\ last.events /= <<>>) => Len(nat) = 1
           /\ (~rich /\ last.op \notin FallbackOps) => Len(nat) = 1
           /\ (~rich /\ last.op \in FallbackOps) =>
                  (Len(nat) = 1 <=> (/\ last.events /= <<>>
                                     /\ ~HasNamed(last.named)
                                     /\ CheckedCtx(last).root /= "nil"
                                     /\ ~Done(CheckedCtx(last))
                                     /\ LegacyOffered(last)))
           /\ (~rich /\ ~LegacyOffered(last)) =>
                  (/\ nat = <<>>
                   /\ ~last.panic
                   /\ last.err = (IF HasNamed(last.named) THEN ErrNamed
                                  ELSE IF Done(last.ctx) THEN CtxErr(last.ctx)
                                  ELSE ErrSkip))

C10_Witness ==
    /\ last.op = "Conn.ExecContext"
    /\ last.recv.parent.caps = {}
    /\ last.err = ErrSkip
    /\ last.events /= <<>>

====
